---- MODULE Spec2Model ----
(***************************************************************************)
(* The SHA-1 streaming engine of sha1/src/lib.rs: the struct Sha1 (State   *)
(* h, TotalLength len, Buffer buffer) with update, fixed_result, reset and *)
(* the derived Clone, driven by a caller that reads a message in chunks.   *)
(*                                                                         *)
(* TLC's integers are 32-bit signed, so a u32 word is the pair <<hi, lo>>  *)
(* of its 16-bit halves and the u64 counter is four 16-bit limbs, most     *)
(* significant first.  Both keep their width: every operation reduces      *)
(* modulo 2^32 or 2^64 exactly where the machine does.                     *)
(***************************************************************************)
EXTENDS Integers, Sequences, FiniteSets, TLC

VARIABLES
    src,     \* which message the caller hashes
    eng,     \* eng[e]: the fields h, len, buffer of engine e
    st,      \* st[e]: "absent", "live", "consumed" (moved into result) or "panicked"
    origin,  \* origin[e]: how e's current message began ("new", "reset", "result_reset",
             \* "clone") and whether e had absorbed input before that (history)
    msg,     \* msg[e]: the bytes fed to e since then (history)
    trace,   \* trace[e]: the blocks handed to compress since then (history)
    out      \* out[e]: the digest the caller got from e's last call, if that was a finalize

vars == <<src, eng, st, origin, msg, trace, out>>

(***************************************************************************)
(* Bounds of the model.                                                    *)
(***************************************************************************)
\* Length of the long message of the one-engine specifications.
MaxLen == 129
\* Length of the long message of the two-engine (clone) specification.
CloneMaxLen == 80

(***************************************************************************)
(* Program constants.                                                      *)
(***************************************************************************)
\* BlockBuffer<U64>, type BlockSize = U64.
BlockSize == 64
\* type OutputSize = U20.
OutputSize == 20
\* consts::STATE_LEN, the number of words of h.
STATE_LEN == 5

\* A word is two 16-bit halves, the counter four 16-bit limbs.
Half == 2^16

(***************************************************************************)
(* 32-bit words as <<hi, lo>>.                                             *)
(***************************************************************************)
RECURSIVE BitOp(_, _, _, _)
BitOp(op, a, b, n) ==
    IF n = 0 THEN 0
    ELSE (LET p == a % 2
              q == b % 2
          IN CASE op = "and" -> p * q
               [] op = "or" -> IF p + q > 0 THEN 1 ELSE 0
               [] OTHER -> (p + q) % 2)
         + 2 * BitOp(op, a \div 2, b \div 2, n - 1)

\* The three bitwise operations on 4-bit digits, tabulated once.
XorNib == [a \in 0..15 |-> [b \in 0..15 |-> BitOp("xor", a, b, 4)]]
AndNib == [a \in 0..15 |-> [b \in 0..15 |-> BitOp("and", a, b, 4)]]
OrNib == [a \in 0..15 |-> [b \in 0..15 |-> BitOp("or", a, b, 4)]]

Op16(T, a, b) ==
    T[a % 16][b % 16]
    + 16 * T[(a \div 16) % 16][(b \div 16) % 16]
    + 256 * T[(a \div 256) % 16][(b \div 256) % 16]
    + 4096 * T[a \div 4096][b \div 4096]

Xor(a, b) == <<Op16(XorNib, a[1], b[1]), Op16(XorNib, a[2], b[2])>>
And(a, b) == <<Op16(AndNib, a[1], b[1]), Op16(AndNib, a[2], b[2])>>
Or(a, b) == <<Op16(OrNib, a[1], b[1]), Op16(OrNib, a[2], b[2])>>
Not(a) == <<(Half - 1) - a[1], (Half - 1) - a[2]>>

\* Addition modulo 2^32.
Add(a, b) ==
    LET lo == a[2] + b[2]
        hi == a[1] + b[1] + (lo \div Half)
    IN <<hi % Half, lo % Half>>

RotSmall(a, n) ==
    LET m == 2^n
        d == 2^(16 - n)
    IN << ((a[1] * m) % Half) + (a[2] \div d),
          ((a[2] * m) % Half) + (a[1] \div d) >>

\* rotate_left on a 32-bit word, 0 < n < 32.
Rotl(a, n) == IF n >= 16 THEN RotSmall(<<a[2], a[1]>>, n - 16) ELSE RotSmall(a, n)

(***************************************************************************)
(* The Compression Transform (utils::compress) and the IV (consts::H).     *)
(***************************************************************************)
\* 0x67452301, 0xEFCDAB89, 0x98BADCFE, 0x10325476, 0xC3D2E1F0
H ==
    << <<26437, 8961>>, <<61389, 43913>>, <<39098, 56574>>,
       <<4146, 21622>>, <<50130, 57840>> >>

\* The block as 16 big-endian 32-bit words.
BlockWords(block) ==
    [i \in 1..16 |-> << block[4 * i - 3] * 256 + block[4 * i - 2],
                        block[4 * i - 1] * 256 + block[4 * i] >>]

\* w[t] = rotate_left(w[t-3] XOR w[t-8] XOR w[t-14] XOR w[t-16], 1), t in 16..80
\* (w is 1-based here: w[t + 1] is the spec's w[t]).
RECURSIVE Schedule(_)
Schedule(w) ==
    IF Len(w) = 80 THEN w
    ELSE LET t == Len(w) + 1
         IN Schedule(Append(w,
                Rotl(Xor(Xor(w[t - 3], w[t - 8]), Xor(w[t - 14], w[t - 16])), 1)))

F(t, b, c, d) ==
    IF t < 20 THEN Or(And(b, c), And(Not(b), d))
    ELSE IF t < 40 THEN Xor(Xor(b, c), d)
    ELSE IF t < 60 THEN Or(Or(And(b, c), And(b, d)), And(c, d))
    ELSE Xor(Xor(b, c), d)

\* 0x5A827999, 0x6ED9EBA1, 0x8F1BBCDC, 0xCA62C1D6
K(t) ==
    IF t < 20 THEN <<23170, 31129>>
    ELSE IF t < 40 THEN <<28377, 60321>>
    ELSE IF t < 60 THEN <<36635, 48348>>
    ELSE <<51810, 49622>>

\* One round: temp = rotl(a,5) + f + e + k + w[t];
\* (a,b,c,d,e) = (temp, a, rotl(b,30), c, d).
Round(v, wt, t) ==
    LET temp == Add(Add(Add(Add(Rotl(v[1], 5), F(t, v[2], v[3], v[4])), v[5]), K(t)), wt)
    IN <<temp, v[1], Rotl(v[2], 30), v[3], v[4]>>

RECURSIVE Rounds(_, _)
Rounds(s, w) ==
    IF s.t = 80 THEN s.v
    ELSE Rounds([t |-> s.t + 1, v |-> Round(s.v, w[s.t + 1], s.t)], w)

compress(state, block) ==
    LET w == Schedule(BlockWords(block))
        v == Rounds([t |-> 0, v |-> state], w)
    IN [i \in 1..STATE_LEN |-> Add(state[i], v[i])]

(***************************************************************************)
(* The u64 counter: four 16-bit limbs, most significant first.             *)
(***************************************************************************)
U64(n) == <<0, 0, n \div Half, n % Half>>

\* x + y on u64: the sum modulo 2^64 and whether it overflowed.
AddU64(x, y) ==
    LET s4 == x[4] + y[4]
        s3 == x[3] + y[3] + (s4 \div Half)
        s2 == x[2] + y[2] + (s3 \div Half)
        s1 == x[1] + y[1] + (s2 \div Half)
    IN [sum |-> <<s1 % Half, s2 % Half, s3 % Half, s4 % Half>>,
        overflow |-> s1 >= Half]

\* rotate_left in place of <<: the bits shifted out at the top come back at
\* the bottom.
Shl_Rotates(x, n) ==
    LET m == 2^n
        d == 2^(16 - n)
    IN << ((x[1] * m) % Half) + (x[2] \div d),
          ((x[2] * m) % Half) + (x[3] \div d),
          ((x[3] * m) % Half) + (x[4] \div d),
          ((x[4] * m) % Half) + (x[1] \div d) >>

\* x << n on u64 for 0 <= n < 16: the bits shifted out at the top are lost.
Shl(x, n) ==
    LET m == 2^n
        d == 2^(16 - n)
    IN << ((x[1] * m) % Half) + (x[2] \div d),
          ((x[2] * m) % Half) + (x[3] \div d),
          ((x[3] * m) % Half) + (x[4] \div d),
          (x[4] * m) % Half >>

\* BE::write_u64: the 8 bytes of a u64, most significant first.
write_u64(x) ==
    << x[1] \div 256, x[1] % 256, x[2] \div 256, x[2] % 256,
       x[3] \div 256, x[3] % 256, x[4] \div 256, x[4] % 256 >>

\* LE in place of BE: each word least significant byte first.
write_u32_into_LittleEndian(h) ==
    [i \in 1..(4 * Len(h)) |->
        LET w == h[((i - 1) \div 4) + 1]
            k == (i - 1) % 4
        IN CASE k = 0 -> w[2] % 256
             [] k = 1 -> w[2] \div 256
             [] k = 2 -> w[1] % 256
             [] OTHER -> w[1] \div 256]

\* BE::write_u32_into: each word as 4 bytes, most significant first, h0 first.
write_u32_into(h) ==
    [i \in 1..(4 * Len(h)) |->
        LET w == h[((i - 1) \div 4) + 1]
            k == (i - 1) % 4
        IN CASE k = 0 -> w[1] \div 256
             [] k = 1 -> w[1] % 256
             [] k = 2 -> w[2] \div 256
             [] OTHER -> w[2] % 256]

(***************************************************************************)
(* BlockBuffer<U64>: the bytes not yet forming a block.                    *)
(***************************************************************************)
Zeros(n) == [i \in 1..n |-> 0]

\* BlockBuffer::input: append; each time the buffer reaches 64 bytes hand
\* the block to the callback and empty the buffer before going on.
\* s = [buffer, data, blocks]; the result's blocks are the callback's calls.
RECURSIVE input(_)
input(s) ==
    LET room == BlockSize - Len(s.buffer)
    IN IF Len(s.data) < room
       THEN [buffer |-> s.buffer \o s.data, blocks |-> s.blocks]
       ELSE input([buffer |-> <<>>,
                   data |-> SubSeq(s.data, room + 1, Len(s.data)),
                   blocks |-> Append(s.blocks, s.buffer \o SubSeq(s.data, 1, room))])

\* BlockBuffer::len64_padding::<BE>: 0x80, zeros up to 56 modulo 64, the
\* 8-byte big-endian length; one block, or two when fewer than 8 bytes are
\* left after the 0x80.
len64_padding(buffer, l) ==
    LET marked == Append(buffer, 128)
        left == BlockSize - Len(marked)
    IN IF left < 8
       THEN [buffer |-> <<>>,
             blocks |-> << marked \o Zeros(left),
                           Zeros(BlockSize - 8) \o write_u64(l) >>]
       ELSE [buffer |-> <<>>,
             blocks |-> << marked \o Zeros(left - 8) \o write_u64(l) >>]

\* BlockBuffer::reset and Default: the empty buffer.
buffer_reset == <<>>

(***************************************************************************)
(* struct Sha1 and its operations.                                         *)
(***************************************************************************)
\* The closure |d| compress(state, d), called once per block, in order.
RECURSIVE CompressEach(_)
CompressEach(s) ==
    IF s.blocks = <<>> THEN s.state
    ELSE CompressEach([state |-> compress(s.state, Head(s.blocks)),
                       blocks |-> Tail(s.blocks)])

\* impl Default for Sha1
default == [h |-> H, len |-> U64(0), buffer |-> buffer_reset]

\* update that hands BlockBuffer::input only the new data, the bytes buffered
\* by earlier calls forgotten.
update_ForgetsBuffer(self, data) ==
    LET sum == AddU64(self.len, U64(Len(data)))
        r == input([buffer |-> <<>>, data |-> data, blocks |-> <<>>])
    IN {[panic |-> FALSE,
         self |-> [h |-> CompressEach([state |-> self.h, blocks |-> r.blocks]),
                   len |-> sum.sum, buffer |-> r.buffer],
         blocks |-> r.blocks]}

\* update without self.len += input.len().
update_SkipsLen(self, data) ==
    LET r == input([buffer |-> self.buffer, data |-> data, blocks |-> <<>>])
    IN {[panic |-> FALSE,
         self |-> [h |-> CompressEach([state |-> self.h, blocks |-> r.blocks]),
                   len |-> self.len, buffer |-> r.buffer],
         blocks |-> r.blocks]}

\* update whose closure compresses into a copy of h: self.h is never written.
update_DiscardsState(self, data) ==
    LET sum == AddU64(self.len, U64(Len(data)))
        r == input([buffer |-> self.buffer, data |-> data, blocks |-> <<>>])
    IN {[panic |-> FALSE,
         self |-> [h |-> self.h, len |-> sum.sum, buffer |-> r.buffer],
         blocks |-> r.blocks]}

\* update counting one byte more than it was given: len += n + 1.
update_LenPlusOne(self, data) ==
    LET sum == AddU64(self.len, U64(Len(data) + 1))
        r == input([buffer |-> self.buffer, data |-> data, blocks |-> <<>>])
    IN {[panic |-> FALSE,
         self |-> [h |-> CompressEach([state |-> self.h, blocks |-> r.blocks]),
                   len |-> sum.sum, buffer |-> r.buffer],
         blocks |-> r.blocks]}

\* update over a buffer that only ever grows: no block is handed on.
update_NeverDrains(self, data) ==
    LET sum == AddU64(self.len, U64(Len(data)))
    IN {[panic |-> FALSE,
         self |-> [h |-> self.h, len |-> sum.sum, buffer |-> self.buffer \o data],
         blocks |-> <<>>]}

\* Update::update.  self.len += input.len() as u64 wraps in a build without
\* overflow checks and panics in a build with them; both builds exist, so
\* the result is the set of outcomes.  blocks: the blocks compressed.
update(self, data) ==
    LET sum == AddU64(self.len, U64(Len(data)))
        r == input([buffer |-> self.buffer, data |-> data, blocks |-> <<>>])
        done == [panic |-> FALSE,
                 self |-> [h |-> CompressEach([state |-> self.h, blocks |-> r.blocks]),
                           len |-> sum.sum,
                           buffer |-> r.buffer],
                 blocks |-> r.blocks]
    IN IF sum.overflow
       THEN {done, [panic |-> TRUE, self |-> self, blocks |-> <<>>]}
       ELSE {done}

\* fixed_result with the byte count as the length field (no << 3).
fixed_result_ByteLength(self) ==
    LET r == len64_padding(self.buffer, self.len)
        h == CompressEach([state |-> self.h, blocks |-> r.blocks])
    IN [out |-> write_u32_into(h), blocks |-> r.blocks]

\* fixed_result that pads an emptied buffer, the buffered bytes dropped.
fixed_result_DropsBuffer(self) ==
    LET l == Shl(self.len, 3)
        r == len64_padding(buffer_reset, l)
        h == CompressEach([state |-> self.h, blocks |-> r.blocks])
    IN [out |-> write_u32_into(h), blocks |-> r.blocks]

\* FixedOutput::fixed_result: pad with l = self.len << 3, compress the
\* padding blocks, serialize h.
fixed_result(self) ==
    LET l == Shl(self.len, 3)
        r == len64_padding(self.buffer, l)
        h == CompressEach([state |-> self.h, blocks |-> r.blocks])
    IN [out |-> write_u32_into(h), blocks |-> r.blocks]

\* reset without self.buffer.reset().
reset_KeepsBuffer(self) == [h |-> H, len |-> U64(0), buffer |-> self.buffer]

\* reset without self.h = H.
reset_KeepsState(self) == [h |-> self.h, len |-> U64(0), buffer |-> buffer_reset]

\* reset without self.len = 0.
reset_KeepsLen(self) == [h |-> H, len |-> self.len, buffer |-> buffer_reset]

\* Reset::reset
reset(self) == [h |-> H, len |-> U64(0), buffer |-> buffer_reset]

\* A clone that starts with an empty buffer.
clone_FreshBuffer(self) == [h |-> self.h, len |-> self.len, buffer |-> buffer_reset]

\* #[derive(Clone)]: every field copied.
clone(self) == [h |-> self.h, len |-> self.len, buffer |-> self.buffer]

\* Digest::result_reset (finalize_reset): the digest of a copy, then reset.
result_reset(self) ==
    LET res == fixed_result(clone(self))
    IN [out |-> res.out, blocks |-> res.blocks, self |-> reset(self)]

(***************************************************************************)
(* The caller: it hashes one of a few messages, reading it in chunks.      *)
(***************************************************************************)
Engines == {1, 2}

\* A byte of the long messages, by position.
PatternByte(k) == (k * 37 + 11) % 256

\* The messages: "abc", "hello world", the long message of the one-engine
\* specifications and the long message of the clone specification.
Source(s) ==
    CASE s = 1 -> <<97, 98, 99>>
      [] s = 2 -> <<104, 101, 108, 108, 111, 32, 119, 111, 114, 108, 100>>
      [] s = 3 -> [k \in 1..MaxLen |-> PatternByte(k)]
      [] OTHER -> [k \in 1..CloneMaxLen |-> PatternByte(k + 7)]

\* The chunk lengths the caller reads each message in.
ReadSizes(s) ==
    CASE s = 1 -> {0, 1, 2, 3}
      [] s = 2 -> {0, 5, 6, 11}
      [] s = 3 -> {0, 8, 55, 56, 63, 64, 65}
      [] OTHER -> {0, 40, 64}

\* The k-th byte engine e is fed: the original reads the message; the clone
\* reads a different continuation.
Feed(e, k) == IF e = 1 THEN Source(src)[k] ELSE (Source(src)[k] + 128) % 256

\* The next n bytes engine e is fed.
Chunk(e, n) == [i \in 1..n |-> Feed(e, Len(msg[e]) + i)]

\* No digest held by the caller.
NoOut ==
    [valid |-> FALSE, via |-> "none", digest |-> <<>>, msg |-> <<>>, trace |-> <<>>,
     pad |-> 0, self |-> default, origin |-> [how |-> "new", reused |-> FALSE]]

\* The digest the caller holds after finalizing engine e by `via`, with what
\* it was computed from: the message fed, every block compressed for it
\* (trace), the number of padding blocks, and the engine as it was at the call.
Result(e, via, res) ==
    [valid |-> TRUE, via |-> via, digest |-> res.out, msg |-> msg[e],
     trace |-> trace[e] \o res.blocks, pad |-> Len(res.blocks), self |-> eng[e],
     origin |-> origin[e]]

\* The origin of the message engine e starts by `how`.
Restart(e, how) == [how |-> how, reused |-> origin[e].reused \/ msg[e] # <<>>]

\* Sha1::new() / Sha1::default(): one fresh engine, no clone yet.
InitWith(s) ==
    /\ src = s
    /\ eng = [e \in Engines |-> default]
    /\ st = [e \in Engines |-> IF e = 1 THEN "live" ELSE "absent"]
    /\ origin = [e \in Engines |-> [how |-> "new", reused |-> FALSE]]
    /\ msg = [e \in Engines |-> <<>>]
    /\ trace = [e \in Engines |-> <<>>]
    /\ out = [e \in Engines |-> NoOut]

Init == \E s \in {1, 2, 3} : InitWith(s)

\* hasher.update(chunk)
Update(e, n) ==
    /\ st[e] = "live"
    /\ Len(msg[e]) + n <= Len(Source(src))
    /\ \E o \in update(eng[e], Chunk(e, n)) :
          /\ eng' = [eng EXCEPT ![e] = o.self]
          /\ st' = [st EXCEPT ![e] = IF o.panic THEN "panicked" ELSE "live"]
          /\ msg' = [msg EXCEPT ![e] = IF o.panic THEN @ ELSE @ \o Chunk(e, n)]
          /\ trace' = [trace EXCEPT ![e] = @ \o o.blocks]
          /\ out' = [out EXCEPT ![e] = NoOut]
    /\ UNCHANGED <<src, origin>>

\* hasher.reset()
Reset(e) ==
    /\ st[e] = "live"
    /\ eng' = [eng EXCEPT ![e] = reset(eng[e])]
    /\ origin' = [origin EXCEPT ![e] = Restart(e, "reset")]
    /\ msg' = [msg EXCEPT ![e] = <<>>]
    /\ trace' = [trace EXCEPT ![e] = <<>>]
    /\ out' = [out EXCEPT ![e] = NoOut]
    /\ UNCHANGED <<src, st>>

\* hasher.result(): consumes the engine.
Finalize(e) ==
    /\ st[e] = "live"
    /\ out' = [out EXCEPT ![e] = Result(e, "result", fixed_result(eng[e]))]
    /\ st' = [st EXCEPT ![e] = "consumed"]
    /\ UNCHANGED <<src, eng, origin, msg, trace>>

\* hasher.result_reset()
FinalizeReset(e) ==
    /\ st[e] = "live"
    /\ LET r == result_reset(eng[e])
       IN /\ out' = [out EXCEPT ![e] = Result(e, "result_reset", r)]
          /\ eng' = [eng EXCEPT ![e] = r.self]
    /\ origin' = [origin EXCEPT ![e] = Restart(e, "result_reset")]
    /\ msg' = [msg EXCEPT ![e] = <<>>]
    /\ trace' = [trace EXCEPT ![e] = <<>>]
    /\ UNCHANGED <<src, st>>

\* let other = hasher.clone()
Clone ==
    /\ st[1] = "live"
    /\ st[2] = "absent"
    /\ eng' = [eng EXCEPT ![2] = clone(eng[1])]
    /\ st' = [st EXCEPT ![2] = "live"]
    /\ origin' = [origin EXCEPT ![2] = [how |-> "clone", reused |-> origin[1].reused]]
    /\ msg' = [msg EXCEPT ![2] = msg[1]]
    /\ trace' = [trace EXCEPT ![2] = trace[1]]
    /\ UNCHANGED <<src, out>>

\* One engine: any sequence of update, reset, result and result_reset.
Next ==
    \/ \E n \in ReadSizes(src) : Update(1, n)
    \/ Reset(1)
    \/ Finalize(1)
    \/ FinalizeReset(1)

Spec == Init /\ [][Next]_vars

\* Two engines: the original, and the clone once it is taken; any
\* interleaving of calls on the two.
InitClone == InitWith(4)

NextClone ==
    \/ \E e \in Engines : \E n \in ReadSizes(src) : Update(e, n)
    \/ \E e \in Engines : Reset(e)
    \/ \E e \in Engines : Finalize(e)
    \/ Clone

SpecClone == InitClone /\ [][NextClone]_vars

\* Values of the counter up to 2^64 - 1, as limbs: carries between limbs,
\* 2^61 (where len << 3 starts to lose bits) and the last values before 2^64.
WideLens ==
    { <<0, 0, 65535, 65535>>,             \* 2^32 - 1
      <<0, 65535, 65535, 65531>>,         \* 2^48 - 5
      <<291, 17767, 35243, 52719>>,       \* 0x0123456789ABCDEF
      <<8191, 65535, 65535, 65535>>,      \* 2^61 - 1
      <<8192, 0, 0, 0>>,                  \* 2^61
      <<8192, 0, 0, 56>>,                 \* 2^61 + 56
      <<32768, 0, 0, 0>>,                 \* 2^63
      <<43690, 43690, 43690, 43690>>,     \* 0xAAAAAAAAAAAAAAAA
      <<65535, 65535, 65535, 65472>>,     \* 2^64 - 64
      <<65535, 65535, 65535, 65525>>,     \* 2^64 - 11
      <<65535, 65535, 65535, 65535>> }    \* 2^64 - 1

\* An engine that has absorbed L bytes, for L up to 2^64 - 1: its counter is
\* L and its buffer holds the L mod 64 bytes after the last whole block.
\* What h is after that much input cannot be computed here; the IV stands
\* for it.  msg and trace record what is fed from this point on.
InitWide ==
    \E L \in WideLens :
        /\ src = 2
        /\ eng = [e \in Engines |->
                    IF e = 1
                    THEN [h |-> H, len |-> L,
                          buffer |-> [k \in 1..(L[4] % BlockSize) |-> PatternByte(k)]]
                    ELSE default]
        /\ st = [e \in Engines |-> IF e = 1 THEN "live" ELSE "absent"]
        /\ origin = [e \in Engines |-> [how |-> "new", reused |-> FALSE]]
        /\ msg = [e \in Engines |-> <<>>]
        /\ trace = [e \in Engines |-> <<>>]
        /\ out = [e \in Engines |-> NoOut]

SpecWide == InitWide /\ [][Next]_vars

(***************************************************************************)
(* What the claims compare with: hashing a whole message in one call.      *)
(***************************************************************************)
\* A fresh engine after the single call update(S).
OneShotEngine(S) == (CHOOSE o \in update(default, S) : ~o.panic).self

\* The digest of a fresh engine given update(S) then finalize.
OneShot(S) == fixed_result(OneShotEngine(S)).out

\* The blocks, concatenated.
Flatten(blocks) ==
    [i \in 1..(BlockSize * Len(blocks)) |->
        blocks[((i - 1) \div BlockSize) + 1][((i - 1) % BlockSize) + 1]]

\* The 8-byte big-endian encoding of v, for v < 2^31.
BE8(v) ==
    <<0, 0, 0, 0, (v \div 2^24) % 256, (v \div 2^16) % 256, (v \div 2^8) % 256, v % 256>>

\* FIPS 180-4 padding of M: M, 0x80, k zero bytes, the bit length, with k the
\* least k >= 0 such that Len(M) + 1 + k is 56 modulo 64.
Padded(M) ==
    LET n == Len(M)
        k == CHOOSE k \in 0..63 : (n + 1 + k) % 64 = 56
    IN M \o <<128>> \o Zeros(k) \o BE8(8 * n)

\* da39a3ee5e6b4b0d3255bfef95601890afd80709
DigestEmpty ==
    <<218, 57, 163, 238, 94, 107, 75, 13, 50, 85, 191, 239, 149, 96, 24, 144, 175, 216, 7, 9>>
\* a9993e364706816aba3e25717850c26c9cd0d89d
DigestAbc ==
    <<169, 153, 62, 54, 71, 6, 129, 106, 186, 62, 37, 113, 120, 80, 194, 108, 156, 208, 216, 157>>
\* 2aae6c35c94fcfb415dbe95f408b9ce91ee846ed
DigestHelloWorld ==
    <<42, 174, 108, 53, 201, 79, 207, 180, 21, 219, 233, 95, 64, 139, 156, 233, 30, 232, 70, 237>>

(***************************************************************************)
(* The claims.                                                             *)
(***************************************************************************)
\* C1: chunking invariance.  Whatever consecutive pieces (empty ones
\* included) a fresh engine was fed a message in, the digest it returns is
\* the digest of a fresh engine fed the whole message in one update.
C1_ChunkingInvariance ==
    \A e \in Engines :
        (out[e].valid /\ out[e].origin.how = "new")
            => out[e].digest = OneShot(out[e].msg)

\* A 119-byte message is longer than any chunk read (at most 65 bytes), so
\* it was fed in several updates, the first of which left bytes buffered.
C1_Witness ==
    /\ out[1].valid
    /\ out[1].origin.how = "new"
    /\ Len(out[1].msg) = 119
    /\ out[1].digest = OneShot(out[1].msg)

\* C2: known vectors.  A fresh engine fed m returns the FIPS 180-4 digest of
\* m, for m the empty message, "abc" and "hello world".
C2_KnownVectors ==
    \A e \in Engines :
        (out[e].valid /\ out[e].origin.how = "new") =>
            /\ out[e].msg = <<>> => out[e].digest = DigestEmpty
            /\ out[e].msg = Source(1) => out[e].digest = DigestAbc
            /\ out[e].msg = Source(2) => out[e].digest = DigestHelloWorld

C2_Witness ==
    /\ out[1].valid
    /\ out[1].origin.how = "new"
    /\ out[1].msg = Source(2)
    /\ out[1].digest = DigestHelloWorld

\* C3: reset.  After reset() the engine has State = IV, TotalLength = 0 and
\* an empty Buffer, a second reset changes nothing, and from then on it is
\* the engine a fresh one would be after the same updates, digest included.
C3_ResetRestoresFresh ==
    \A e \in Engines :
        /\ (st[e] = "live" /\ origin[e].how = "reset") =>
              /\ msg[e] = <<>> =>
                    /\ eng[e].h = H
                    /\ eng[e].len = U64(0)
                    /\ eng[e].buffer = <<>>
                    /\ eng[e] = default
                    /\ reset(eng[e]) = eng[e]
              /\ eng[e] = OneShotEngine(msg[e])
        /\ (out[e].valid /\ out[e].origin.how = "reset") =>
              out[e].digest = OneShot(out[e].msg)

\* A digest of 120 bytes taken from an engine that was reset after it had
\* absorbed input.
C3_Witness ==
    /\ out[1].valid
    /\ out[1].origin.how = "reset"
    /\ out[1].origin.reused
    /\ Len(out[1].msg) = 120

\* C4: clone independence.  No call changes the fields of both engines (a
\* call on one leaves the other's State, Buffer and TotalLength alone, and
\* taking the clone leaves the original's), and every digest, of the
\* original fed P ++ A and of the clone fed P ++ B, under any interleaving
\* of calls, is the digest of a fresh engine fed that whole message.
C4_CloneIndependence ==
    /\ [](\A e \in Engines : out[e].valid => out[e].digest = OneShot(out[e].msg))
    /\ [][~(eng'[1] # eng[1] /\ eng'[2] # eng[2])]_vars

\* Both digests held at once: the clone was taken after a 40-byte prefix
\* (bytes buffered, no block yet), then each engine was fed its own 40 bytes,
\* which complete the first block.
C4_Witness ==
    /\ out[1].valid
    /\ out[2].valid
    /\ out[1].origin.how = "new"
    /\ out[2].origin.how = "clone"
    /\ Len(out[1].msg) = 80
    /\ Len(out[2].msg) = 80
    /\ SubSeq(out[1].msg, 1, 40) = SubSeq(out[2].msg, 1, 40)
    /\ out[1].msg[41] # out[2].msg[41]
    /\ out[1].digest # out[2].digest

\* C5: finalize_reset.  It returns the 20-byte digest finalize would return
\* on the engine as it was, leaves State = IV, TotalLength = 0 and an empty
\* Buffer, and the instance then hashes a new message as a fresh engine does.
C5_FinalizeReset ==
    \A e \in Engines :
        /\ (out[e].valid /\ out[e].via = "result_reset") =>
              /\ Len(out[e].digest) = OutputSize
              /\ out[e].digest = fixed_result(out[e].self).out
              /\ st[e] = "live"
              /\ eng[e].h = H
              /\ eng[e].len = U64(0)
              /\ eng[e].buffer = <<>>
        /\ (out[e].valid /\ out[e].origin.how = "result_reset") =>
              out[e].digest = OneShot(out[e].msg)

\* A second message, hashed by the instance that finalize_reset left behind
\* after a first one, and finalized by finalize_reset again.
C5_Witness ==
    /\ out[1].valid
    /\ out[1].via = "result_reset"
    /\ out[1].origin.how = "result_reset"
    /\ out[1].origin.reused
    /\ Len(out[1].msg) = 65

\* C7: State changes only through compress, once per completed block, in
\* input order.  After n bytes since the engine was new or reset, compress
\* has been called floor(n / 64) times, the i-th call on bytes
\* [64 i, 64 i + 64) of the input, State is the IV folded through those
\* calls, and the Buffer holds the fewer than 64 bytes left over: a block is
\* compressed as soon as it is complete, and not before.
C7_CompressPerBlock ==
    \A e \in Engines :
        st[e] = "live" =>
            LET n == Len(msg[e])
                k == n \div BlockSize
            IN /\ Len(trace[e]) = k
               /\ \A i \in 1..k :
                     trace[e][i] = SubSeq(msg[e], BlockSize * (i - 1) + 1, BlockSize * i)
               /\ eng[e].h = CompressEach([state |-> H, blocks |-> trace[e]])
               /\ Len(eng[e].buffer) < BlockSize
               /\ eng[e].buffer = SubSeq(msg[e], BlockSize * k + 1, n)

\* Two blocks compressed, the second completed exactly by the last update.
C7_Witness ==
    /\ st[1] = "live"
    /\ Len(msg[1]) = 2 * BlockSize
    /\ Len(trace[1]) = 2
    /\ eng[1].buffer = <<>>
    /\ eng[1].h # H

\* C8: padding.  The blocks compressed for a message M of n bytes, by the
\* updates and the finalize together, are M, 0x80, k zero bytes and the
\* 8-byte big-endian 8 n, k least with n + 1 + k = 56 modulo 64: a multiple
\* of 64 bytes.
C8_PaddingLayout ==
    \A e \in Engines :
        out[e].valid =>
            /\ Flatten(out[e].trace) = Padded(out[e].msg)
            /\ Len(Flatten(out[e].trace)) % BlockSize = 0

\* 120 bytes: the 0x80 and k = 63 zero bytes spill into a third block.
C8_Witness ==
    /\ out[1].valid
    /\ Len(out[1].msg) = 120
    /\ Len(out[1].trace) = 3
    /\ out[1].pad = 2

\* C9: finalize compresses one block when the Buffer holds at most 55 bytes
\* and two when it holds 56 to 63, never none and never more; so 55 bytes
\* give one padding block, 56 and 63 give two, 64 and 65 give one data block
\* and one padding block.
C9_PaddingBlocks ==
    \A e \in Engines :
        out[e].valid =>
            LET b == Len(out[e].self.buffer)
                n == Len(out[e].msg)
            IN /\ out[e].pad \in {1, 2}
               /\ b <= 55 => out[e].pad = 1
               /\ b \in 56..63 => out[e].pad = 2
               /\ n = 55 => (out[e].pad = 1 /\ Len(out[e].trace) = 1)
               /\ n \in {56, 63} => (out[e].pad = 2 /\ Len(out[e].trace) = 2)
               /\ n \in {64, 65} => (out[e].pad = 1 /\ Len(out[e].trace) = 2)

\* A 56-byte message: the first length that needs a second padding block.
C9_Witness ==
    /\ out[1].valid
    /\ Len(out[1].msg) = 56
    /\ Len(out[1].self.buffer) = 56
    /\ out[1].pad = 2

\* Bit i (0 the least significant) of a u64 given as limbs, and of the
\* 8-byte big-endian field that ends a block.
Bit64(x, i) == (x[4 - (i \div 16)] \div 2^(i % 16)) % 2
FieldBit(block, i) == (block[BlockSize - (i \div 8)] \div 2^(i % 8)) % 2

\* C6: update never fails: whatever the counter and the input, the call
\* completes, the counter wrapping modulo 2^64.
C6_UpdateNeverFails == \A e \in Engines : st[e] # "panicked"

\* C10: the length field finalize writes is the 64 bits of TotalLength * 8
\* modulo 2^64: its three low bits are 0 and bit i is bit i - 3 of the
\* counter, the counter's three top bits lost; finalize completes whatever
\* the counter.
C10_LengthField ==
    \A e \in Engines :
        out[e].valid =>
            LET last == out[e].trace[Len(out[e].trace)]
            IN /\ st[e] \in {"live", "consumed"}
               /\ Len(last) = BlockSize
               /\ \A i \in 0..63 :
                     FieldBit(last, i) = IF i < 3 THEN 0 ELSE Bit64(out[e].self.len, i - 3)

\* A finalize at TotalLength >= 2^61 with bit 63 of the counter set: that bit
\* is lost by the shift.
C10_Witness ==
    /\ out[1].valid
    /\ out[1].self.len[1] >= 8192
    /\ Bit64(out[1].self.len, 63) = 1
    /\ Bit64(out[1].self.len, 0) = 1

\* C11: the digest is 20 bytes: the five words of State as they are after
\* the last padding block was compressed, each as 4 big-endian bytes, h0
\* first and h4 last; with no update at all that State is
\* compress(IV, padding block of the empty message).
C11_DigestSerialization ==
    \A e \in Engines :
        out[e].valid =>
            LET t == out[e].trace
                padding == SubSeq(t, Len(t) - out[e].pad + 1, Len(t))
                final == CompressEach([state |-> out[e].self.h, blocks |-> padding])
                d == out[e].digest
            IN /\ Len(d) = OutputSize
               /\ \A i \in 1..OutputSize : d[i] \in 0..255
               /\ \A w \in 1..STATE_LEN :
                     /\ d[4 * w - 3] * 256 + d[4 * w - 2] = final[w][1]
                     /\ d[4 * w - 1] * 256 + d[4 * w] = final[w][2]
               /\ (out[e].msg = <<>> /\ out[e].origin.how = "new") =>
                     /\ out[e].self.h = H
                     /\ padding = << <<128>> \o Zeros(BlockSize - 1) >>
                     /\ final = compress(H, <<128>> \o Zeros(BlockSize - 1))

\* The digest of a fresh engine finalized with no update.
C11_Witness ==
    /\ out[1].valid
    /\ out[1].via = "result"
    /\ out[1].origin.how = "new"
    /\ out[1].msg = <<>>
    /\ Len(out[1].digest) = OutputSize
    /\ out[1].digest[1] = 218
    /\ out[1].digest[OutputSize] = 9

\* C12: in every state reachable by construction, update, reset and clone,
\* of the original and of its clone alike, the Buffer holds at least 0 and
\* at most 64 bytes.
C12_BufferBound ==
    \A e \in Engines :
        /\ Len(eng[e].buffer) >= 0
        /\ Len(eng[e].buffer) <= BlockSize

\* A clone taken with 40 bytes buffered that was fed 40 more: one block
\* drained in the clone, 16 bytes left in its buffer.
C12_Witness ==
    /\ st[2] = "live"
    /\ origin[2].how = "clone"
    /\ Len(msg[2]) = 80
    /\ Len(trace[2]) = 1
    /\ Len(eng[2].buffer) = 16
    /\ Len(eng[1].buffer) = 40

\* C13: after every completed construction, update and reset the number of
\* buffered bytes is TotalLength mod 64, below 64, the Buffer holds exactly
\* the last that many bytes fed since the last reset, and State has
\* absorbed exactly the whole blocks before them: State, Buffer and
\* TotalLength agree on how much was absorbed.
C13_BufferTracksLength ==
    \A e \in Engines :
        st[e] = "live" =>
            LET n == Len(msg[e])
                b == Len(eng[e].buffer)
            IN /\ eng[e].len = U64(n)
               /\ b = eng[e].len[4] % BlockSize
               /\ b < BlockSize
               /\ eng[e].buffer = SubSeq(msg[e], n - b + 1, n)
               /\ BlockSize * Len(trace[e]) + b = n
               /\ Flatten(trace[e]) \o eng[e].buffer = msg[e]
               /\ eng[e].h = CompressEach([state |-> H, blocks |-> trace[e]])

\* 119 bytes fed: one block absorbed, 55 bytes buffered.
C13_Witness ==
    /\ st[1] = "live"
    /\ Len(msg[1]) = 119
    /\ eng[1].len = U64(119)
    /\ Len(trace[1]) = 1
    /\ Len(eng[1].buffer) = 55
    /\ eng[1].h # H

\* C14: update with the empty byte sequence leaves State, Buffer and
\* TotalLength unchanged and calls compress zero times, in every reachable
\* state of a live engine, the one with an empty Buffer right after a block
\* was drained included; and no step that feeds a live engine nothing
\* changes the engine or compresses a block.
C14_EmptyUpdateIsNoOp ==
    /\ [](\A e \in Engines :
            st[e] = "live" =>
                \A o \in update(eng[e], <<>>) :
                    /\ ~o.panic
                    /\ o.self = eng[e]
                    /\ o.blocks = <<>>)
    /\ [][\A e \in Engines :
            (st[e] = "live" /\ st'[e] = "live" /\ msg'[e] = msg[e]
                /\ origin'[e] = origin[e])
            => (eng'[e] = eng[e] /\ trace'[e] = trace[e])]_vars

\* Exactly one block fed and drained, the Buffer empty: the empty update
\* there yields the engine as it is and no block.
C14_Witness ==
    /\ st[1] = "live"
    /\ Len(msg[1]) = BlockSize
    /\ Len(trace[1]) = 1
    /\ eng[1].buffer = <<>>
    /\ eng[1].h # H
    /\ update(eng[1], <<>>) = {[panic |-> FALSE, self |-> eng[1], blocks |-> <<>>]}

====
